---- MODULE Spec2Model ----
(***************************************************************************)
(* Financial-Document-Analyzer-API: the two heuristic engines of           *)
(* src/tools.py, InvestmentTool._run and RiskTool._run, and the upload     *)
(* handler of src/main.py, analyze_document.                               *)
(*                                                                         *)
(* A document text is a sequence of one-character strings.  The regular    *)
(* expressions, the keyword searches and the whitespace clean-up work on   *)
(* those characters as the Python code does.  Extracted amounts are        *)
(* non-negative integers held in floats; a mean is kept as the exact       *)
(* fraction <<sum, count>> and every threshold test is done by cross       *)
(* multiplication, which agrees with the float comparison for the small    *)
(* amounts of the inputs below (a correctly rounded quotient p/q of small  *)
(* integers equals the float literal 0.6, 0.4, 0.15 ... exactly when       *)
(* p/q is that decimal).                                                   *)
(***************************************************************************)
EXTENDS Integers, Sequences, FiniteSets, TLC

VARIABLES text, invResult, riskResult

\* analyze_document: one request
VARIABLES
  pc,            \* where the handler stands
  filename,      \* file.filename ([none |-> TRUE] for None)
  upload,        \* the length of the uploaded body, in bytes
  bodyRead,           \* how much of the body file.read has returned
  size,          \* the local `size`
  file_path,     \* the extension of data/<uuid><ext>
  exists,        \* the file at file_path exists
  created,       \* the file at file_path was created at some point
  written,       \* the bytes in the file at file_path
  raised,        \* the exception that ended the try block
  response,      \* the HTTP status of the response, 0 before there is one
  crewRan,       \* run_crew was called
  removeFailed   \* os.remove raised

handler == <<pc, filename, upload, bodyRead, size, file_path, exists, created, written,
             raised, response, crewRan, removeFailed>>

vars == <<text, invResult, riskResult, handler>>

---------------------------------------------------------------------------
(* Characters *)

Digits == {"0", "1", "2", "3", "4", "5", "6", "7", "8", "9"}

LowerLetters == {"a", "b", "c", "d", "e", "f", "g", "h", "i", "j", "k", "l", "m",
                 "n", "o", "p", "q", "r", "s", "t", "u", "v", "w", "x", "y", "z"}

UpperLetters == {"A", "B", "D", "F", "G", "I", "L", "N", "P", "R"}

\* str.lower() / re.IGNORECASE on the upper-case letters the inputs use
LowerChar(c) ==
  CASE c = "A" -> "a" [] c = "B" -> "b" [] c = "D" -> "d" [] c = "F" -> "f"
    [] c = "G" -> "g" [] c = "I" -> "i"
    [] c = "L" -> "l" [] c = "N" -> "n" [] c = "P" -> "p" [] c = "R" -> "r"
    [] OTHER -> c

Lower(s) == [i \in 1..Len(s) |-> LowerChar(s[i])]

\* \s
IsSpace(c) == c \in {" ", "\n", "\t"}

\* \w
IsWord(c) == c \in Digits \cup LowerLetters \cup UpperLetters \cup {"_"}

\* [\d,.]
IsNumChar(c) == c \in Digits \cup {",", "."}

DigitVal(c) ==
  CASE c = "0" -> 0 [] c = "1" -> 1 [] c = "2" -> 2 [] c = "3" -> 3 [] c = "4" -> 4
    [] c = "5" -> 5 [] c = "6" -> 6 [] c = "7" -> 7 [] c = "8" -> 8 [] c = "9" -> 9

---------------------------------------------------------------------------
(* Step 1: " ".join(financial_document_data.split()) *)

RECURSIVE NormRec(_, _, _, _)
NormRec(s, i, out, gap) ==
  IF i > Len(s) THEN out
  ELSE IF IsSpace(s[i]) THEN NormRec(s, i + 1, out, out # <<>>)
  ELSE NormRec(s, i + 1, (IF gap THEN Append(out, " ") ELSE out) \o <<s[i]>>, FALSE)

Normalize(s) == NormRec(s, 1, <<>>, FALSE)

---------------------------------------------------------------------------
(* Regular expressions of step 2 *)

\* the literal lit stands in s at position i (s already lower-cased: IGNORECASE)
LitAt(s, i, lit) ==
  /\ i + Len(lit) - 1 <= Len(s)
  /\ \A k \in 1..Len(lit) : s[i + k - 1] = lit[k]

\* ([\d,.]+) is greedy: the capture starting at i ends where the run ends
RECURSIVE NumRunEnd(_, _)
NumRunEnd(s, i) ==
  IF i <= Len(s) /\ IsNumChar(s[i]) THEN NumRunEnd(s, i + 1) ELSE i

\* [\w\s]*?\$?([\d,.]+) tried from position k: the lazy gap stops at the first
\* place where an optional "$" and one numeral character follow.  0: no match.
RECURSIVE CaptureStart(_, _)
CaptureStart(s, k) ==
  IF k > Len(s) THEN 0
  ELSE IF s[k] = "$" /\ k + 1 <= Len(s) /\ IsNumChar(s[k + 1]) THEN k + 1
  ELSE IF IsNumChar(s[k]) THEN k
  ELSE IF IsWord(s[k]) \/ IsSpace(s[k]) THEN CaptureStart(s, k + 1)
  ELSE 0

L_revenue == <<"r", "e", "v", "e", "n", "u", "e">>
L_net_income == <<"n", "e", "t", " ", "i", "n", "c", "o", "m", "e">>
L_profit == <<"p", "r", "o", "f", "i", "t">>
L_debt == <<"d", "e", "b", "t">>
L_liabilities == <<"l", "i", "a", "b", "i", "l", "i", "t", "i", "e", "s">>
L_asset == <<"a", "s", "s", "e", "t">>

\* A pattern is the position just after its label part at i, or 0.
\* revenue[s]?\s+   (then the lazy gap)
RevenueLabelEnd(s, i) ==
  IF ~LitAt(s, i, L_revenue) THEN 0
  ELSE LET j == i + Len(L_revenue)
           afterS == IF j <= Len(s) /\ s[j] = "s" THEN j + 1 ELSE j
       IN  IF afterS <= Len(s) /\ IsSpace(s[afterS]) THEN afterS + 1
           ELSE IF j <= Len(s) /\ IsSpace(s[j]) THEN j + 1
           ELSE 0

\* (net income|profit)
ProfitLabelEnd(s, i) ==
  IF LitAt(s, i, L_net_income) THEN i + Len(L_net_income)
  ELSE IF LitAt(s, i, L_profit) THEN i + Len(L_profit)
  ELSE 0

\* (debt|liabilities)
DebtLabelEnd(s, i) ==
  IF LitAt(s, i, L_debt) THEN i + Len(L_debt)
  ELSE IF LitAt(s, i, L_liabilities) THEN i + Len(L_liabilities)
  ELSE 0

\* (asset[s]?)
AssetLabelEnd(s, i) ==
  IF LitAt(s, i, L_asset) THEN i + Len(L_asset) ELSE 0

LabelEnd(cat, s, i) ==
  CASE cat = "revenue" -> RevenueLabelEnd(s, i)
    [] cat = "profit" -> ProfitLabelEnd(s, i)
    [] cat = "debt" -> DebtLabelEnd(s, i)
    [] cat = "asset" -> AssetLabelEnd(s, i)

\* re.findall(pattern, processed_data, re.IGNORECASE): the numeral captures of
\* the non-overlapping matches, leftmost first.  low is the lower-cased text.
RECURSIVE FindAll(_, _, _)
FindAll(cat, low, pos) ==
  IF pos > Len(low) THEN <<>>
  ELSE LET e == LabelEnd(cat, low, pos)
           c == IF e = 0 THEN 0 ELSE CaptureStart(low, e)
       IN  IF c = 0 THEN FindAll(cat, low, pos + 1)
           ELSE LET stop == NumRunEnd(low, c)
                IN  <<SubSeq(low, c, stop - 1)>> \o FindAll(cat, low, stop)

\* wrong variant of StripCommas: the decimal point is removed with the commas
RECURSIVE StripCommasAndPoints(_)
StripCommasAndPoints(cap) ==
  IF cap = <<>> THEN <<>>
  ELSE (IF Head(cap) \in {",", "."} THEN <<>> ELSE <<Head(cap)>>)
       \o StripCommasAndPoints(Tail(cap))

\* r.replace(",", "")
RECURSIVE StripCommas(_)
StripCommas(cap) ==
  IF cap = <<>> THEN <<>>
  ELSE (IF Head(cap) = "," THEN <<>> ELSE <<Head(cap)>>) \o StripCommas(Tail(cap))

\* str.isdigit()
IsDigitStr(d) == d # <<>> /\ \A k \in 1..Len(d) : d[k] \in Digits

\* float(...) of a string of digits
RECURSIVE ParseNum(_)
ParseNum(d) ==
  IF d = <<>> THEN 0 ELSE 10 * ParseNum(SubSeq(d, 1, Len(d) - 1)) + DigitVal(d[Len(d)])

\* [float(r.replace(",", "")) for r in matches if r.replace(",", "").isdigit()]
RECURSIVE Amounts(_)
Amounts(matches) ==
  IF matches = <<>> THEN <<>>
  ELSE LET d == StripCommas(Head(matches))
       IN  (IF IsDigitStr(d) THEN <<ParseNum(d)>> ELSE <<>>) \o Amounts(Tail(matches))

---------------------------------------------------------------------------
(* statistics.mean and the ratios: exact fractions <<numerator, denominator>> *)

RECURSIVE Sum(_)
Sum(xs) == IF xs = <<>> THEN 0 ELSE Head(xs) + Sum(Tail(xs))

\* statistics.mean(xs), xs non-empty
Mean(xs) == <<Sum(xs), Len(xs)>>

\* `if avg_revenue` / `if avg_assets` / `if avg_profit`: the float is not 0.0
Truthy(q) == q[1] # 0

\* a / b, b not zero
Quot(a, b) == <<a[1] * b[2], a[2] * b[1]>>

Times100(q) == <<100 * q[1], q[2]>>

Zero == <<0, 1>>

\* float("inf"): greater than every number
Infinity == <<1, 0>>

\* q > n/d, q < n/d for a fraction or Infinity q and the decimal literal n/d
Gt(q, n, d) == q[1] * d > n * q[2]
Lt(q, n, d) == q[1] * d < n * q[2]

---------------------------------------------------------------------------
(* Keyword vocabularies *)

positive_keywords ==
  << <<"g", "r", "o", "w", "t", "h">>,
     <<"e", "x", "p", "a", "n", "s", "i", "o", "n">>,
     <<"p", "r", "o", "f", "i", "t">>,
     <<"s", "t", "r", "o", "n", "g">>,
     <<"i", "n", "c", "r", "e", "a", "s", "e">>,
     <<"p", "o", "s", "i", "t", "i", "v", "e">> >>

negative_keywords ==
  << <<"l", "o", "s", "s">>,
     <<"d", "e", "c", "l", "i", "n", "e">>,
     <<"r", "i", "s", "k">>,
     <<"d", "e", "c", "r", "e", "a", "s", "e">>,
     <<"n", "e", "g", "a", "t", "i", "v", "e">>,
     <<"l", "i", "t", "i", "g", "a", "t", "i", "o", "n">> >>

market_risks ==
  << <<"c", "o", "m", "p", "e", "t", "i", "t", "i", "o", "n">>,
     <<"i", "n", "f", "l", "a", "t", "i", "o", "n">>,
     <<"r", "e", "c", "e", "s", "s", "i", "o", "n">>,
     <<"r", "e", "g", "u", "l", "a", "t", "i", "o", "n">>,
     <<"c", "u", "r", "r", "e", "n", "c", "y">>,
     <<"v", "o", "l", "a", "t", "i", "l", "i", "t", "y">> >>

operational_risks ==
  << <<"l", "a", "w", "s", "u", "i", "t">>,
     <<"l", "i", "t", "i", "g", "a", "t", "i", "o", "n">>,
     <<"s", "u", "p", "p", "l", "y", " ", "c", "h", "a", "i", "n">>,
     <<"s", "t", "r", "i", "k", "e">>,
     <<"f", "r", "a", "u", "d">>,
     <<"m", "a", "n", "a", "g", "e", "m", "e", "n", "t", " ", "f", "a", "i", "l", "u", "r", "e">> >>

negative_signals ==
  << <<"l", "o", "s", "s">>,
     <<"d", "e", "c", "l", "i", "n", "e">>,
     <<"u", "n", "c", "e", "r", "t", "a", "i", "n">>,
     <<"r", "i", "s", "k">>,
     <<"d", "e", "f", "a", "u", "l", "t">>,
     <<"b", "a", "n", "k", "r", "u", "p", "t", "c", "y">>,
     <<"c", "r", "i", "s", "i", "s">> >>

\* str.count(word): the non-overlapping occurrences of word in low, from pos on
RECURSIVE Count(_, _, _)
Count(low, word, pos) ==
  IF pos + Len(word) - 1 > Len(low) THEN 0
  ELSE IF LitAt(low, pos, word) THEN 1 + Count(low, word, pos + Len(word))
  ELSE Count(low, word, pos + 1)

\* sum(processed_data.lower().count(word) for word in keywords)
RECURSIVE Hits(_, _)
Hits(low, keywords) ==
  IF keywords = <<>> THEN 0
  ELSE Count(low, Head(keywords), 1) + Hits(low, Tail(keywords))

\* word in processed_data.lower()
Occurs(low, word) == \E pos \in 1..Len(low) : LitAt(low, pos, word)

\* [word for word in vocabulary if word in processed_data.lower()]
RECURSIVE Found(_, _)
Found(low, vocabulary) ==
  IF vocabulary = <<>> THEN <<>>
  ELSE (IF Occurs(low, Head(vocabulary)) THEN <<Head(vocabulary)>> ELSE <<>>)
       \o Found(low, Tail(vocabulary))

---------------------------------------------------------------------------
(* Insight lines.  A line is its leading symbol, as code points, its fixed  *)
(* text, and the value the f-string interpolates (a fraction, or the list   *)
(* of matched words); the fixed texts and the interpolated values hold      *)
(* ASCII only, so a symbol occurs in a line iff it occurs in its lead.      *)

SYM_CROSS == <<10060>>           \* U+274C
SYM_WARNING == <<9888, 65039>>   \* U+26A0 U+FE0F
SYM_SCALES == <<9878, 65039>>    \* U+2696 U+FE0F
SYM_CHECK == <<9989>>            \* U+2705
SYM_INFO == <<8505, 65039>>      \* U+2139 U+FE0F
SYM_CHART == <<128202>>          \* U+1F4CA
SYM_PIN == <<128204>>            \* U+1F4CC
SYM_DOWN == <<128201>>           \* U+1F4C9
SYM_FACTORY == <<127981>>        \* U+1F3ED

InsightLine(lead, fixed, value) == [lead |-> lead, fixed |-> fixed, value |-> value]

\* symbol in line
SymbolIn(symbol, line) ==
  \E k \in 0..(Len(line.lead) - Len(symbol)) :
    \A j \in 1..Len(symbol) : line.lead[k + j] = symbol[j]

\* any(symbol in i for i in insights)
AnyHas(symbol, insights) == \E k \in 1..Len(insights) : SymbolIn(symbol, insights[k])

---------------------------------------------------------------------------
(* InvestmentTool._run *)

\* step 3, first block: the three lines of the revenue/profit ratios
ProfitMargin(revenues, profits) ==
  IF Truthy(Mean(revenues)) THEN Times100(Quot(Mean(profits), Mean(revenues))) ELSE Zero

MarginLines(revenues, profits) ==
  IF revenues # <<>> /\ profits # <<>>
  THEN << InsightLine(SYM_CHART, "Average Revenue", Mean(revenues)),
          InsightLine(SYM_CHART, "Average Profit", Mean(profits)),
          InsightLine(SYM_CHART, "Profit Margin", ProfitMargin(revenues, profits)) >>
  ELSE <<>>

\* step 3, second block: (avg_debt / statistics.mean(profits)) if profits else 0.
\* The test is on the list, which is non-empty in this branch, so the division
\* is always made: "ZeroDivisionError" when the mean of the profits is 0.0.
InvDebtToIncome(debts, profits) ==
  IF profits # <<>>
  THEN (IF Sum(profits) = 0 THEN [raised |-> TRUE, value |-> Zero]
        ELSE [raised |-> FALSE, value |-> Quot(Mean(debts), Mean(profits))])
  ELSE [raised |-> FALSE, value |-> Zero]

DebtLines(debts, profits) ==
  IF debts # <<>> /\ profits # <<>>
  THEN LET debt_to_income == InvDebtToIncome(debts, profits)
       IN  IF debt_to_income.raised THEN [raised |-> TRUE, lines |-> <<>>]
           ELSE [raised |-> FALSE,
                 lines |-> << InsightLine(SYM_SCALES, "Avg Debt", Mean(debts)),
                              InsightLine(SYM_SCALES, "Debt-to-Income Ratio",
                                          debt_to_income.value) >>]
  ELSE [raised |-> FALSE, lines |-> <<>>]

\* step 4
SentimentLine(positive_hits, negative_hits) ==
  IF positive_hits > negative_hits
  THEN InsightLine(SYM_CHECK, "Positive financial outlook detected.", <<>>)
  ELSE IF negative_hits > positive_hits
  THEN InsightLine(SYM_WARNING, "Negative financial risks detected.", <<>>)
  ELSE InsightLine(SYM_INFO, "Neutral outlook.", <<>>)

\* wrong variant of Recommendation: the Buy threshold is not strict
RecommendationInclusive(revenues, profits, positive_hits, negative_hits) ==
  IF profits # <<>> /\ revenues # <<>>
  THEN IF Sum(revenues) = 0 THEN "ZeroDivisionError"
       ELSE LET margin == Times100(Quot(Mean(profits), Mean(revenues)))
            IN  IF ~Lt(margin, 15, 1) /\ positive_hits > negative_hits THEN "Buy"
                ELSE IF Lt(margin, 5, 1) \/ negative_hits > positive_hits THEN "Sell"
                ELSE "Hold"
  ELSE "Hold"

\* step 5: the margin is computed again, without the guard of step 3
Recommendation(revenues, profits, positive_hits, negative_hits) ==
  IF profits # <<>> /\ revenues # <<>>
  THEN IF Sum(revenues) = 0 THEN "ZeroDivisionError"
       ELSE LET margin == Times100(Quot(Mean(profits), Mean(revenues)))
            IN  IF Gt(margin, 15, 1) /\ positive_hits > negative_hits THEN "Buy"
                ELSE IF Lt(margin, 5, 1) \/ negative_hits > positive_hits THEN "Sell"
                ELSE "Hold"
  ELSE "Hold"

\* wrong variant of Returned: the emptiness test is inverted
ReturnedInverted(insights, fallback) ==
  IF insights = <<>> THEN [kind |-> "joined", lines |-> insights, string |-> ""]
  ELSE [kind |-> "fallback", lines |-> <<>>, string |-> fallback]

\* "\n".join(insights) if insights else <fallback>
Returned(insights, fallback) ==
  IF insights # <<>> THEN [kind |-> "joined", lines |-> insights, string |-> ""]
  ELSE [kind |-> "fallback", lines |-> <<>>, string |-> fallback]

NoReturn == [kind |-> "none", lines |-> <<>>, string |-> ""]

InvestmentTool_run(financial_document_data) ==
  LET processed_data == Normalize(financial_document_data)
      low == Lower(processed_data)
      revenues == Amounts(FindAll("revenue", low, 1))
      profits == Amounts(FindAll("profit", low, 1))
      debts == Amounts(FindAll("debt", low, 1))
      step3a == MarginLines(revenues, profits)
      step3b == DebtLines(debts, profits)
      positive_hits == Hits(low, positive_keywords)
      negative_hits == Hits(low, negative_keywords)
      recommendation == Recommendation(revenues, profits, positive_hits, negative_hits)
      locals == [revenues |-> revenues, profits |-> profits, debts |-> debts,
                 positive_hits |-> positive_hits, negative_hits |-> negative_hits]
  IN  IF step3b.raised
      THEN [status |-> "raised", at |-> 87, locals |-> locals,
            recommendation |-> "", ret |-> NoReturn]
      ELSE IF recommendation = "ZeroDivisionError"
      THEN [status |-> "raised", at |-> 110, locals |-> locals,
            recommendation |-> "", ret |-> NoReturn]
      ELSE [status |-> "returned", at |-> 0, locals |-> locals,
            recommendation |-> recommendation,
            ret |-> Returned(step3a \o step3b.lines
                             \o << SentimentLine(positive_hits, negative_hits),
                                   InsightLine(SYM_PIN, "Investment Recommendation",
                                               recommendation) >>,
                             "No meaningful financial insights extracted.")]

---------------------------------------------------------------------------
(* RiskTool._run *)

\* step 3, first block
DebtToAssets(assets, debts) ==
  IF Truthy(Mean(assets)) THEN Quot(Mean(debts), Mean(assets)) ELSE Zero

\* wrong variant of SolvencyClass: the High threshold is not strict
SolvencyClassInclusive(debt_to_assets) ==
  IF ~Lt(debt_to_assets, 6, 10)
  THEN InsightLine(SYM_CROSS, "High solvency risk: Company relies heavily on debt.", <<>>)
  ELSE IF Gt(debt_to_assets, 4, 10)
  THEN InsightLine(SYM_WARNING, "Moderate solvency risk: Debt levels may be concerning.", <<>>)
  ELSE InsightLine(SYM_CHECK, "Healthy solvency position.", <<>>)

SolvencyClass(debt_to_assets) ==
  IF Gt(debt_to_assets, 6, 10)
  THEN InsightLine(SYM_CROSS, "High solvency risk: Company relies heavily on debt.", <<>>)
  ELSE IF Gt(debt_to_assets, 4, 10)
  THEN InsightLine(SYM_WARNING, "Moderate solvency risk: Debt levels may be concerning.", <<>>)
  ELSE InsightLine(SYM_CHECK, "Healthy solvency position.", <<>>)

SolvencyLines(assets, debts) ==
  IF assets # <<>> /\ debts # <<>>
  THEN << InsightLine(SYM_SCALES, "Debt-to-Assets Ratio", DebtToAssets(assets, debts)),
          SolvencyClass(DebtToAssets(assets, debts)) >>
  ELSE <<>>

\* wrong variant of RiskDebtToIncome: a zero mean profit gives 0, as the
\* guards of the other ratios do
RiskDebtToIncomeZero(profits, debts) ==
  IF Truthy(Mean(profits)) THEN Quot(Mean(debts), Mean(profits)) ELSE Zero

\* step 3, second block
RiskDebtToIncome(profits, debts) ==
  IF Truthy(Mean(profits)) THEN Quot(Mean(debts), Mean(profits)) ELSE Infinity

ServicingClass(debt_to_income) ==
  IF Gt(debt_to_income, 4, 1)
  THEN InsightLine(SYM_CROSS, "High debt servicing risk: Profits may not cover obligations.", <<>>)
  ELSE IF Gt(debt_to_income, 2, 1)
  THEN InsightLine(SYM_WARNING, "Moderate debt servicing risk.", <<>>)
  ELSE InsightLine(SYM_CHECK, "Debt levels manageable relative to income.", <<>>)

ServicingLines(profits, debts) ==
  IF profits # <<>> /\ debts # <<>>
  THEN << InsightLine(SYM_SCALES, "Debt-to-Income Ratio", RiskDebtToIncome(profits, debts)),
          ServicingClass(RiskDebtToIncome(profits, debts)) >>
  ELSE <<>>

\* step 4
KeywordLines(market_hits, operational_hits, negative_hits) ==
  (IF market_hits # <<>>
   THEN <<InsightLine(SYM_DOWN, "Market Risks detected", market_hits)>> ELSE <<>>)
  \o (IF operational_hits # <<>>
      THEN <<InsightLine(SYM_FACTORY, "Operational Risks detected", operational_hits)>>
      ELSE <<>>)
  \o (IF negative_hits # <<>>
      THEN <<InsightLine(SYM_WARNING, "Negative Signals", negative_hits)>> ELSE <<>>)

\* wrong variant of RiskScore: the two weights are exchanged
RiskScoreSwapped(insights) ==
  (IF AnyHas(SYM_CROSS, insights) THEN 1 ELSE 0)
  + (IF AnyHas(SYM_WARNING, insights) THEN 2 ELSE 0)

\* step 5
RiskScore(insights) ==
  (IF AnyHas(SYM_CROSS, insights) THEN 2 ELSE 0)
  + (IF AnyHas(SYM_WARNING, insights) THEN 1 ELSE 0)

\* wrong variant of Overall: any score above 0 is at least Medium
OverallFromOne(risk_score) ==
  IF risk_score >= 3 THEN "High Risk Investment"
  ELSE IF risk_score >= 1 THEN "Medium Risk Investment"
  ELSE "Low Risk Investment"

Overall(risk_score) ==
  IF risk_score >= 3 THEN "High Risk Investment"
  ELSE IF risk_score = 2 THEN "Medium Risk Investment"
  ELSE "Low Risk Investment"

RiskTool_run(financial_document_data) ==
  LET processed_data == Normalize(financial_document_data)
      low == Lower(processed_data)
      debts == Amounts(FindAll("debt", low, 1))
      assets == Amounts(FindAll("asset", low, 1))
      profits == Amounts(FindAll("profit", low, 1))
      market_hits == Found(low, market_risks)
      operational_hits == Found(low, operational_risks)
      negative_hits == Found(low, negative_signals)
      insights == SolvencyLines(assets, debts) \o ServicingLines(profits, debts)
                  \o KeywordLines(market_hits, operational_hits, negative_hits)
      overall == Overall(RiskScore(insights))
  IN  [status |-> "returned", at |-> 0,
       locals |-> [debts |-> debts, assets |-> assets, profits |-> profits,
                   market_hits |-> market_hits, operational_hits |-> operational_hits,
                   negative_hits |-> negative_hits],
       scored |-> insights, overall |-> overall,
       ret |-> Returned(Append(insights, InsightLine(SYM_PIN, "Overall Risk Rating", overall)),
                        "No significant risks detected.")]

---------------------------------------------------------------------------
(* Input documents: concatenations of fragments *)

F_revenue_0 == <<"r", "e", "v", "e", "n", "u", "e", " ", "0", " ">>
F_Revenues_20 == <<"R", "e", "v", "e", "n", "u", "e", "s", " ", "o", "f", " ", "$", "2", ",", "0", "\n">>
F_net_income_0 == <<"n", "e", "t", " ", " ", "i", "n", "c", "o", "m", "e", " ", "0", " ">>
F_profit_3 == <<"p", "r", "o", "f", "i", "t", " ", "3", " ">>
F_debt_5 == <<"D", "e", "b", "t", " ", "5", " ">>
F_loss == <<"l", "o", "s", "s", " ">>
F_growth == <<"G", "r", "o", "w", "t", "h", " ">>

InvFragments ==
  {F_revenue_0, F_Revenues_20, F_net_income_0, F_profit_3, F_debt_5, F_loss, F_growth}

F_debt_2 == <<"d", "e", "b", "t", " ", "2", " ">>
F_liabilities_4 == <<"L", "i", "a", "b", "i", "l", "i", "t", "i", "e", "s", ":", " ", "$", "4", " ">>
F_assets_5 == <<"a", "s", "s", "e", "t", "s", " ", "5", " ">>
F_asset_0 == <<"a", "s", "s", "e", "t", " ", "0", " ">>
F_profit_1 == <<"p", "r", "o", "f", "i", "t", " ", "1", " ">>
F_risk == <<"r", "i", "s", "k", " ">>
F_fraud == <<"f", "r", "a", "u", "d", " ">>

RiskFragments ==
  {F_debt_2, F_liabilities_4, F_assets_5, F_asset_0, F_profit_1, F_net_income_0, F_risk, F_fraud}

F_Revenue == <<"R", "e", "v", "e", "n", "u", "e", " ">>
F_net_income == <<"n", "e", "t", " ", "i", "n", "c", "o", "m", "e", " ">>
F_liabilities == <<"l", "i", "a", "b", "i", "l", "i", "t", "i", "e", "s", " ">>
F_assets == <<"a", "s", "s", "e", "t", "s", " ">>
F_12_50 == <<"1", "2", ".", "5", "0", " ">>
F_1c2 == <<"1", ",", "2", " ">>
F_d3 == <<"$", "3", " ">>
F_colon == <<":", " ">>
F_risking == <<"R", "i", "s", "k", "i", "n", "g", "\n">>
F_Profit_7 == <<"P", "r", "o", "f", "i", "t", " ", "o", "f", " ", "$", "7", " ">>

Fragments ==
  {F_Revenue, F_net_income, F_liabilities, F_assets, F_12_50, F_1c2, F_d3, F_colon,
   F_risking, F_Profit_7}

MaxFrags == 3
MaxInvFrags == 4
MaxRiskFrags == 4

RECURSIVE Docs(_, _)
Docs(frags, n) ==
  IF n = 0 THEN {<<>>}
  ELSE LET shorter == Docs(frags, n - 1)
       IN  shorter \cup {d \o f : d \in shorter, f \in frags}

---------------------------------------------------------------------------
(* analyze_document (POST /analyze) *)

chunk_size == 1024 * 1024
max_size == 10 * 1024 * 1024

NoException == [type |-> "none", status |-> 0, hf |-> FALSE]

\* HTTPException(status_code=...)
HTTPException(status) == [type |-> "HTTPException", status |-> status, hf |-> FALSE]

\* an OSError of makedirs, open, read or write: its text names no model provider
OSError == [type |-> "OSError", status |-> 0, hf |-> FALSE]

\* what run_crew raises; hf: str(e) holds "BadRequestError" or "huggingface"
CrewError(hf) == [type |-> "Exception", status |-> 0, hf |-> hf]

\* file.filename or ""
NameOf(f) == IF f.none THEN <<>> ELSE f.chars

\* str.endswith
EndsWith(s, suffix) ==
  /\ Len(s) >= Len(suffix)
  /\ SubSeq(s, Len(s) - Len(suffix) + 1, Len(s)) = suffix

DOT_PDF == <<".", "p", "d", "f">>

\* str.rfind(c), 1-based; 0 when c is not in s
RFind(s, c) ==
  IF \E k \in 1..Len(s) : s[k] = c
  THEN CHOOSE k \in 1..Len(s) : s[k] = c /\ \A j \in (k + 1)..Len(s) : s[j] # c
  ELSE 0

\* os.path.splitext(filename)[-1].lower(): from the last dot of the base name,
\* unless only dots stand before it
SplitExt(name) ==
  LET sepIndex == RFind(name, "/")
      dotIndex == RFind(name, ".")
  IN  IF dotIndex > sepIndex
         /\ \E k \in (sepIndex + 1)..(dotIndex - 1) : name[k] # "."
      THEN Lower(SubSeq(name, dotIndex, Len(name)))
      ELSE <<>>

\* no request is being handled
NoRequest ==
  /\ pc = "off"
  /\ filename = [none |-> TRUE, chars |-> <<>>]
  /\ upload = 0
  /\ bodyRead = 0
  /\ size = 0
  /\ file_path = <<>>
  /\ exists = FALSE
  /\ created = FALSE
  /\ written = 0
  /\ raised = NoException
  /\ response = 0
  /\ crewRan = FALSE
  /\ removeFailed = FALSE

\* a request arrives with its file name and its body
Request(names, bodies) ==
  /\ pc = "validate"
  /\ filename \in names
  /\ upload \in bodies
  /\ bodyRead = 0
  /\ size = 0
  /\ file_path = <<>>
  /\ exists = FALSE
  /\ created = FALSE
  /\ written = 0
  /\ raised = NoException
  /\ response = 0
  /\ crewRan = FALSE
  /\ removeFailed = FALSE

\* wrong variant of ResponseTo: no `except HTTPException: raise` before the
\* generic handler
ResponseToGeneric(e) == IF e.hf THEN 422 ELSE 500

\* the except clauses: an HTTPException is raised again, an exception whose
\* text names the model provider becomes 422, any other 500
ResponseTo(e) ==
  IF e.type = "HTTPException" THEN e.status
  ELSE IF e.hf THEN 422
  ELSE 500

\* the try block ends with the exception e
Raise(e) ==
  /\ raised' = e
  /\ response' = ResponseTo(e)
  /\ pc' = "finally"

\* validate the file extension
Validate ==
  /\ pc = "validate"
  /\ IF ~EndsWith(Lower(NameOf(filename)), DOT_PDF)
     THEN /\ raised' = HTTPException(400)
          /\ response' = 400
          /\ pc' = "done"
     ELSE /\ pc' = "makedirs"
          /\ UNCHANGED <<raised, response>>
  /\ UNCHANGED <<text, invResult, riskResult, filename, upload, bodyRead, size, file_path,
                 exists, created, written, crewRan, removeFailed>>

\* os.makedirs("data", exist_ok=True), then the file path; outside the try
Makedirs ==
  /\ pc = "makedirs"
  /\ \/ /\ file_path' = SplitExt(NameOf(filename))
        /\ pc' = "open"
        /\ UNCHANGED <<raised, response>>
     \/ /\ raised' = OSError
        /\ response' = 500
        /\ pc' = "done"
        /\ UNCHANGED file_path
  /\ UNCHANGED <<text, invResult, riskResult, filename, upload, bodyRead, size,
                 exists, created, written, crewRan, removeFailed>>

\* size = 0; open(file_path, "wb")
Open ==
  /\ pc = "open"
  /\ \/ /\ exists' = TRUE
        /\ created' = TRUE
        /\ written' = 0
        /\ size' = 0
        /\ pc' = "read"
        /\ UNCHANGED <<raised, response>>
     \/ /\ Raise(OSError)
        /\ size' = 0
        /\ UNCHANGED <<exists, created, written>>
  /\ UNCHANGED <<text, invResult, riskResult, filename, upload, bodyRead, file_path,
                 crewRan, removeFailed>>

Min(a, b) == IF a < b THEN a ELSE b

\* file.read(1024 * 1024): the next bytes of the body, at most a chunk
NextChunk == Min(chunk_size, upload - bodyRead)

\* one turn of the loop: read, count, test the limit, write
ReadChunk ==
  /\ pc = "read"
  /\ LET chunk == NextChunk
     IN  /\ bodyRead' = bodyRead + chunk
         /\ IF chunk = 0
            THEN /\ pc' = "crew"
                 /\ UNCHANGED <<size, written, raised, response>>
            ELSE /\ size' = size + chunk
                 /\ IF size + chunk > max_size
                    THEN /\ Raise(HTTPException(413))
                         /\ UNCHANGED written
                    ELSE /\ written' = written + chunk
                         /\ UNCHANGED <<pc, raised, response>>
  /\ UNCHANGED <<text, invResult, riskResult, filename, upload, file_path, exists,
                 created, crewRan, removeFailed>>

\* file.read raises
ReadFails ==
  /\ pc = "read"
  /\ Raise(OSError)
  /\ UNCHANGED <<text, invResult, riskResult, filename, upload, bodyRead, size, file_path,
                 exists, created, written, crewRan, removeFailed>>

\* f_out.write(chunk) raises, after none or a part of the chunk went out
WriteFails ==
  /\ pc = "read"
  /\ NextChunk > 0
  /\ size + NextChunk <= max_size
  /\ bodyRead' = bodyRead + NextChunk
  /\ size' = size + NextChunk
  /\ \E part \in {0, NextChunk \div 2} : written' = written + part
  /\ Raise(OSError)
  /\ UNCHANGED <<text, invResult, riskResult, filename, upload, file_path, exists,
                 created, crewRan, removeFailed>>

\* response = await run_crew(query=query, file_path=file_path)
RunCrew ==
  /\ pc = "crew"
  /\ crewRan' = TRUE
  /\ \/ /\ response' = 200
        /\ pc' = "finally"
        /\ UNCHANGED raised
     \/ \E hf \in BOOLEAN : Raise(CrewError(hf))
  /\ UNCHANGED <<text, invResult, riskResult, filename, upload, bodyRead, size, file_path,
                 exists, created, written, removeFailed>>

\* wrong variant of Finally: the clean-up stands at the end of the try block,
\* so it is reached only when nothing was raised
FinallyOnSuccess ==
  /\ pc = "finally"
  /\ pc' = "done"
  /\ IF exists /\ raised = NoException
     THEN \/ exists' = FALSE /\ UNCHANGED removeFailed
          \/ removeFailed' = TRUE /\ UNCHANGED exists
     ELSE UNCHANGED <<exists, removeFailed>>
  /\ UNCHANGED <<text, invResult, riskResult, filename, upload, bodyRead, size, file_path,
                 created, written, raised, response, crewRan>>

\* finally: if os.path.exists(file_path): os.remove(file_path), a failure of
\* which is printed and dropped
Finally ==
  /\ pc = "finally"
  /\ pc' = "done"
  /\ IF exists
     THEN \/ exists' = FALSE /\ UNCHANGED removeFailed
          \/ removeFailed' = TRUE /\ UNCHANGED exists
     ELSE UNCHANGED <<exists, removeFailed>>
  /\ UNCHANGED <<text, invResult, riskResult, filename, upload, bodyRead, size, file_path,
                 created, written, raised, response, crewRan>>

---------------------------------------------------------------------------
(* The tools are called on a document *)

Idle == [status |-> "idle"]

InitOn(docs) ==
  /\ text \in docs
  /\ invResult = Idle
  /\ riskResult = Idle
  /\ NoRequest

InvestmentRun ==
  /\ invResult.status = "idle"
  /\ invResult' = InvestmentTool_run(text)
  /\ UNCHANGED <<text, riskResult, handler>>

RiskRun ==
  /\ riskResult.status = "idle"
  /\ riskResult' = RiskTool_run(text)
  /\ UNCHANGED <<text, invResult, handler>>

Init == InitOn(Docs(Fragments, MaxFrags))

Next == InvestmentRun \/ RiskRun

Spec == Init /\ [][Next]_vars

InitInv == InitOn(Docs(InvFragments, MaxInvFrags))

NextInv == InvestmentRun

SpecInv == InitInv /\ [][NextInv]_vars

InitRisk == InitOn(Docs(RiskFragments, MaxRiskFrags))

NextRisk == RiskRun

SpecRisk == InitRisk /\ [][NextRisk]_vars

---------------------------------------------------------------------------
(* Requests to analyze_document *)

N_none == [none |-> TRUE, chars |-> <<>>]
N_empty == [none |-> FALSE, chars |-> <<>>]
N_a_pdf == [none |-> FALSE, chars |-> <<"a", ".", "p", "d", "f">>]
N_A_PDF == [none |-> FALSE, chars |-> <<"A", ".", "P", "D", "F">>]
N_dot_pdf == [none |-> FALSE, chars |-> <<".", "p", "d", "f">>]
N_a_txt == [none |-> FALSE, chars |-> <<"a", ".", "t", "x", "t">>]
N_a_pdf_txt == [none |-> FALSE, chars |-> <<"a", ".", "p", "d", "f", ".", "t", "x", "t">>]
N_pdf == [none |-> FALSE, chars |-> <<"p", "d", "f">>]

Filenames == {N_none, N_empty, N_a_pdf, N_A_PDF, N_dot_pdf, N_a_txt, N_a_pdf_txt, N_pdf}

MaxUploadChunks == 12

\* body lengths: whole chunks, one byte more, and one byte under the limit
Uploads ==
  {k * chunk_size + d : k \in 0..MaxUploadChunks, d \in {0, 1}} \cup {max_size - 1}

InitUpload ==
  /\ text = <<>>
  /\ invResult = Idle
  /\ riskResult = Idle
  /\ Request(Filenames, Uploads)

NextUpload ==
  \/ Validate
  \/ Makedirs
  \/ Open
  \/ ReadChunk
  \/ ReadFails
  \/ WriteFails
  \/ RunCrew
  \/ Finally

SpecUpload == InitUpload /\ [][NextUpload]_vars

---------------------------------------------------------------------------
(* What a finished call shows *)

InvCalled == invResult.status # "idle"
RiskCalled == riskResult.status # "idle"

InvLines == invResult.ret.lines
RiskLines == riskResult.ret.lines

\* the last line of InvestmentTool's result names the recommendation r
InvRecommends(r) ==
  /\ invResult.status = "returned"
  /\ invResult.ret.kind = "joined"
  /\ InvLines # <<>>
  /\ InvLines[Len(InvLines)].fixed = "Investment Recommendation"
  /\ InvLines[Len(InvLines)].value = r

\* the last line of RiskTool's result names the rating r
RiskRated(r) ==
  /\ riskResult.status = "returned"
  /\ riskResult.ret.kind = "joined"
  /\ RiskLines # <<>>
  /\ RiskLines[Len(RiskLines)].fixed = "Overall Risk Rating"
  /\ RiskLines[Len(RiskLines)].value = r

\* margin = mean(profits) / mean(revenues) * 100 compared with n, mean(revenues) # 0
MarginOver(revenues, profits, n) ==
  100 * Sum(profits) * Len(revenues) > n * Sum(revenues) * Len(profits)
MarginUnder(revenues, profits, n) ==
  100 * Sum(profits) * Len(revenues) < n * Sum(revenues) * Len(profits)

---------------------------------------------------------------------------
(* C1 *)

\* C1: when the revenue and profit lists are both non-empty and the mean
\* revenue is zero, InvestmentTool._run returns (no division fails), its profit
\* margin line carries 0 and its last line is the recommendation.
C1_ZeroRevenueReturns ==
  (/\ InvCalled
   /\ invResult.locals.revenues # <<>>
   /\ invResult.locals.profits # <<>>
   /\ Sum(invResult.locals.revenues) = 0)
  => /\ invResult.status = "returned"
     /\ \E k \in 1..Len(InvLines) :
          InvLines[k].fixed = "Profit Margin" /\ InvLines[k].value[1] = 0
     /\ InvLines[Len(InvLines)].fixed = "Investment Recommendation"

(* C2 *)

\* C2: when the debt and profit lists are both non-empty and the mean profit
\* is zero, InvestmentTool._run returns (the debt-to-income division is
\* guarded) with its sentiment line and its recommendation line.
C2_ZeroProfitReturns ==
  (/\ InvCalled
   /\ invResult.locals.debts # <<>>
   /\ invResult.locals.profits # <<>>
   /\ Sum(invResult.locals.profits) = 0)
  => /\ invResult.status = "returned"
     /\ Len(InvLines) >= 2
     /\ InvLines[Len(InvLines) - 1].fixed \in
          {"Positive financial outlook detected.", "Negative financial risks detected.",
           "Neutral outlook."}
     /\ InvLines[Len(InvLines)].fixed = "Investment Recommendation"

---------------------------------------------------------------------------
(* C3 *)

\* the document yields no amount in any category and matches no keyword
NothingForInvestment ==
  /\ invResult.locals.revenues = <<>>
  /\ invResult.locals.profits = <<>>
  /\ invResult.locals.debts = <<>>
  /\ invResult.locals.positive_hits = 0
  /\ invResult.locals.negative_hits = 0

NothingForRisk ==
  /\ riskResult.locals.debts = <<>>
  /\ riskResult.locals.assets = <<>>
  /\ riskResult.locals.profits = <<>>
  /\ riskResult.locals.market_hits = <<>>
  /\ riskResult.locals.operational_hits = <<>>
  /\ riskResult.locals.negative_hits = <<>>

\* C3 as stated: on a document with no amount and no keyword, RiskTool._run
\* returns exactly "No significant risks detected." and InvestmentTool._run
\* returns exactly "No meaningful financial insights extracted.".
C3_FallbackOnEmpty ==
  /\ (RiskCalled /\ NothingForRisk)
       => /\ riskResult.ret.kind = "fallback"
          /\ riskResult.ret.string = "No significant risks detected."
  /\ (InvCalled /\ NothingForInvestment)
       => /\ invResult.ret.kind = "fallback"
          /\ invResult.ret.string = "No meaningful financial insights extracted."

\* C3 amended: neither tool ever returns its fallback string; on a document
\* with no amount and no keyword, RiskTool._run returns the single line
\* "Overall Risk Rating: Low Risk Investment" and InvestmentTool._run returns
\* the two lines "Neutral outlook." and "Investment Recommendation: Hold".
C3_NoFallbackEver ==
  /\ RiskCalled => riskResult.ret.kind = "joined"
  /\ (InvCalled /\ invResult.status = "returned") => invResult.ret.kind = "joined"
  /\ (RiskCalled /\ NothingForRisk)
       => /\ Len(RiskLines) = 1
          /\ RiskRated("Low Risk Investment")
  /\ (InvCalled /\ NothingForInvestment)
       => /\ Len(InvLines) = 2
          /\ InvLines[1].fixed = "Neutral outlook."
          /\ InvRecommends("Hold")

\* both tools have run on a non-empty document that has no amount and no
\* keyword, and both returned joined lines
C3_Witness ==
  /\ RiskCalled /\ NothingForRisk
  /\ InvCalled /\ NothingForInvestment
  /\ Len(text) > 0
  /\ riskResult.ret.kind = "joined"
  /\ invResult.ret.kind = "joined"

---------------------------------------------------------------------------
(* C4 *)

\* the lines appended before the rating step, by their symbols
MediumMarked == AnyHas(SYM_WARNING, riskResult.scored)
HighMarked == AnyHas(SYM_CROSS, riskResult.scored)

\* C4 as stated: a medium-severity marker and no high-severity marker among
\* the lines gives the rating "Medium Risk Investment".
C4_MediumMarkerGivesMedium ==
  (RiskCalled /\ MediumMarked /\ ~HighMarked) => RiskRated("Medium Risk Investment")

\* C4 amended: a medium-severity marker and no high-severity marker is a score
\* of 1 and gives "Low Risk Investment"; the score of exactly 2, which gives
\* "Medium Risk Investment", is a high-severity marker and no medium one.
C4_MediumMarkerGivesLow ==
  /\ (RiskCalled /\ MediumMarked /\ ~HighMarked) => RiskRated("Low Risk Investment")
  /\ (RiskCalled /\ HighMarked /\ ~MediumMarked) => RiskRated("Medium Risk Investment")

C4_Witness ==
  /\ RiskCalled /\ MediumMarked /\ ~HighMarked
  /\ RiskRated("Low Risk Investment")

---------------------------------------------------------------------------
(* C5 *)

\* C5: with non-empty revenue and profit lists and a non-zero mean revenue,
\* the recommendation is "Buy" iff the margin is strictly over 15 and
\* positive_count is strictly over negative_count; a margin of exactly 15
\* never gives "Buy".
C5_BuyIff ==
  (/\ InvCalled
   /\ invResult.locals.revenues # <<>>
   /\ invResult.locals.profits # <<>>
   /\ Sum(invResult.locals.revenues) # 0)
  => (InvRecommends("Buy")
        <=> /\ MarginOver(invResult.locals.revenues, invResult.locals.profits, 15)
            /\ invResult.locals.positive_hits > invResult.locals.negative_hits)

\* a margin of exactly 15 with more positive than negative keywords: not Buy
C5_Witness ==
  /\ InvCalled
  /\ invResult.locals.revenues # <<>>
  /\ invResult.locals.profits # <<>>
  /\ Sum(invResult.locals.revenues) # 0
  /\ ~MarginOver(invResult.locals.revenues, invResult.locals.profits, 15)
  /\ ~MarginUnder(invResult.locals.revenues, invResult.locals.profits, 15)
  /\ invResult.locals.positive_hits > invResult.locals.negative_hits
  /\ InvRecommends("Hold")

---------------------------------------------------------------------------
(* C6 *)

SolvencyTexts ==
  {"High solvency risk: Company relies heavily on debt.",
   "Moderate solvency risk: Debt levels may be concerning.",
   "Healthy solvency position."}

\* the fraction v equals n/d
SameFraction(v, n, d) == v[1] * d = n * v[2]

\* ratio = mean(debts)/mean(assets) compared with n/10, mean(assets) # 0
DebtToAssetsOver(assets, debts, n) ==
  10 * Sum(debts) * Len(assets) > n * Sum(assets) * Len(debts)

\* C6: with non-empty asset and debt lists, the first line is the
\* debt-to-assets ratio (0 when the mean of the assets is 0), the line right
\* after it is the one solvency classification of the result, and it is High
\* iff ratio > 0.6, Moderate iff 0.4 < ratio <= 0.6, Healthy iff ratio <= 0.4.
C6_Solvency ==
  (RiskCalled /\ riskResult.locals.assets # <<>> /\ riskResult.locals.debts # <<>>)
  => LET assets == riskResult.locals.assets
         debts == riskResult.locals.debts
         zero == Sum(assets) = 0
         over6 == ~zero /\ DebtToAssetsOver(assets, debts, 6)
         over4 == ~zero /\ DebtToAssetsOver(assets, debts, 4)
     IN  /\ riskResult.status = "returned"
         /\ Len(RiskLines) >= 3
         /\ RiskLines[1].fixed = "Debt-to-Assets Ratio"
         /\ IF zero THEN SameFraction(RiskLines[1].value, 0, 1)
            ELSE SameFraction(RiskLines[1].value,
                              Sum(debts) * Len(assets), Len(debts) * Sum(assets))
         /\ Cardinality({k \in 1..Len(RiskLines) : RiskLines[k].fixed \in SolvencyTexts}) = 1
         /\ RiskLines[2].fixed \in SolvencyTexts
         /\ RiskLines[2].fixed = "High solvency risk: Company relies heavily on debt."
              <=> over6
         /\ RiskLines[2].fixed = "Moderate solvency risk: Debt levels may be concerning."
              <=> (over4 /\ ~over6)
         /\ RiskLines[2].fixed = "Healthy solvency position." <=> ~over4

\* a ratio of exactly 0.6 classified Moderate
C6_Witness ==
  /\ RiskCalled
  /\ riskResult.locals.assets # <<>>
  /\ riskResult.locals.debts # <<>>
  /\ 10 * Sum(riskResult.locals.debts) * Len(riskResult.locals.assets)
       = 6 * Sum(riskResult.locals.assets) * Len(riskResult.locals.debts)
  /\ Sum(riskResult.locals.assets) # 0
  /\ RiskLines[2].fixed = "Moderate solvency risk: Debt levels may be concerning."

---------------------------------------------------------------------------
(* C7 *)

HasPoint(cap) == \E k \in 1..Len(cap) : cap[k] = "."
HasDigit(cap) == \E k \in 1..Len(cap) : cap[k] \in Digits

\* the number a capture without a decimal point writes: its digits, in order
RECURSIVE DigitsValue(_, _)
DigitsValue(cap, acc) ==
  IF cap = <<>> THEN acc
  ELSE DigitsValue(Tail(cap), IF Head(cap) \in Digits THEN 10 * acc + DigitVal(Head(cap))
                                                      ELSE acc)

\* the values of the captures that hold no decimal point (and a digit), in order
RECURSIVE KeptValues(_)
KeptValues(captures) ==
  IF captures = <<>> THEN <<>>
  ELSE (IF ~HasPoint(Head(captures)) /\ HasDigit(Head(captures))
        THEN <<DigitsValue(Head(captures), 0)>> ELSE <<>>)
       \o KeptValues(Tail(captures))

Captures(cat) == FindAll(cat, Lower(Normalize(text)), 1)

Doc3(a, b, c) == a \o b \o c

\* C7: in both engines and for each category, the list holds exactly the
\* values of the captures that have no decimal point, in order of appearance
\* and with repetitions; a capture with a decimal point adds nothing, neither
\* its value nor its integer or fractional part, and no call fails on it.
C7_DecimalsDropped ==
  /\ InvCalled
       => /\ invResult.locals.revenues = KeptValues(Captures("revenue"))
          /\ invResult.locals.profits = KeptValues(Captures("profit"))
          /\ invResult.locals.debts = KeptValues(Captures("debt"))
          /\ invResult.status = "raised"
               => (Sum(invResult.locals.profits) = 0 \/ Sum(invResult.locals.revenues) = 0)
  /\ RiskCalled
       => /\ riskResult.locals.debts = KeptValues(Captures("debt"))
          /\ riskResult.locals.assets = KeptValues(Captures("asset"))
          /\ riskResult.locals.profits = KeptValues(Captures("profit"))
          /\ riskResult.status = "returned"
  \* "Revenue 12.50 $3": the one capture is 12.50
  /\ (InvCalled /\ text = Doc3(F_Revenue, F_12_50, F_d3))
       => invResult.locals.revenues = <<>>
  \* "net income 12.50 1,2": neither 12, 50 nor 12 from "1,2"
  /\ (InvCalled /\ text = Doc3(F_net_income, F_12_50, F_1c2))
       => invResult.locals.profits = <<>>
  /\ (RiskCalled /\ text = Doc3(F_liabilities, F_12_50, F_d3))
       => riskResult.locals.debts = <<>>
  /\ (RiskCalled /\ text = Doc3(F_assets, F_12_50, F_1c2))
       => riskResult.locals.assets = <<>>
  \* "assets 1,2 12.50": the capture 1,2 is kept as 12
  /\ (RiskCalled /\ text = Doc3(F_assets, F_1c2, F_12_50))
       => riskResult.locals.assets = <<12>>

\* both engines have run on a document in which a debt label is followed by a
\* numeral with a decimal point and a profit label by a numeral without one:
\* the debt lists are empty, the profit lists are not
C7_Witness ==
  /\ InvCalled /\ RiskCalled
  /\ \E c \in 1..Len(Captures("debt")) : HasPoint(Captures("debt")[c])
  /\ invResult.locals.debts = <<>>
  /\ riskResult.locals.debts = <<>>
  /\ invResult.locals.profits # <<>>
  /\ riskResult.locals.profits # <<>>

---------------------------------------------------------------------------
(* C8 *)

HighTexts ==
  {"High solvency risk: Company relies heavily on debt.",
   "High debt servicing risk: Profits may not cover obligations."}

MediumTexts ==
  {"Moderate solvency risk: Debt levels may be concerning.",
   "Moderate debt servicing risk.",
   "Negative Signals"}

\* the lines of the ratio and keyword steps: all but the final rating line
HighLine == \E k \in 1..(Len(RiskLines) - 1) : RiskLines[k].fixed \in HighTexts
MediumLine == \E k \in 1..(Len(RiskLines) - 1) : RiskLines[k].fixed \in MediumTexts

KeywordTexts == {"Market Risks detected", "Operational Risks detected", "Negative Signals"}

\* C8: with H = a High ratio line was appended and M = a Moderate ratio line or
\* the "Negative Signals" line was appended, the rating is High iff H and M,
\* Medium iff H and not M, Low iff not H; keyword lines without a High ratio
\* line leave the rating Low.
C8_Rating ==
  RiskCalled
  => /\ riskResult.status = "returned"
     /\ RiskRated("High Risk Investment") <=> (HighLine /\ MediumLine)
     /\ RiskRated("Medium Risk Investment") <=> (HighLine /\ ~MediumLine)
     /\ RiskRated("Low Risk Investment") <=> ~HighLine
     /\ ((\E k \in 1..(Len(RiskLines) - 1) : RiskLines[k].fixed \in KeywordTexts)
         /\ ~HighLine) => RiskRated("Low Risk Investment")

\* a High ratio line and the Negative Signals line: rated High
C8_Witness ==
  /\ RiskCalled
  /\ HighLine
  /\ \E k \in 1..(Len(RiskLines) - 1) : RiskLines[k].fixed = "Negative Signals"
  /\ RiskRated("High Risk Investment")

---------------------------------------------------------------------------
(* C9 *)

\* C9: the recommendation is "Hold" whenever the revenue list or the profit
\* list is empty; with both non-empty, a non-zero mean revenue and no Buy, it
\* is "Sell" iff margin < 5 or negative_count > positive_count, else "Hold".
C9_HoldAndSell ==
  InvCalled
  => LET revenues == invResult.locals.revenues
         profits == invResult.locals.profits
         pos == invResult.locals.positive_hits
         neg == invResult.locals.negative_hits
         buy == MarginOver(revenues, profits, 15) /\ pos > neg
         sell == MarginUnder(revenues, profits, 5) \/ neg > pos
     IN  /\ (revenues = <<>> \/ profits = <<>>) => InvRecommends("Hold")
         /\ (revenues # <<>> /\ profits # <<>> /\ Sum(revenues) # 0 /\ ~buy)
              => /\ InvRecommends("Sell") <=> sell
                 /\ InvRecommends("Hold") <=> ~sell

---------------------------------------------------------------------------
(* C10 *)

ServicingTexts ==
  {"High debt servicing risk: Profits may not cover obligations.",
   "Moderate debt servicing risk.",
   "Debt levels manageable relative to income."}

\* ratio = mean(debts)/mean(profits) compared with n, mean(profits) # 0
DebtToIncomeOver(profits, debts, n) ==
  Sum(debts) * Len(profits) > n * Sum(profits) * Len(debts)

\* C10: with non-empty profit and debt lists the call returns; the
\* debt-to-income line carries mean(debt)/mean(profit), or the infinite
\* sentinel when the mean profit is zero; the line right after it is the one
\* debt servicing classification: High iff ratio > 4 (always so for the
\* sentinel), Moderate iff 2 < ratio <= 4, manageable iff ratio <= 2.
C10_DebtServicing ==
  (RiskCalled /\ riskResult.locals.profits # <<>> /\ riskResult.locals.debts # <<>>)
  => LET profits == riskResult.locals.profits
         debts == riskResult.locals.debts
         at == IF riskResult.locals.assets # <<>> THEN 3 ELSE 1
         inf == Sum(profits) = 0
         over4 == inf \/ DebtToIncomeOver(profits, debts, 4)
         over2 == inf \/ DebtToIncomeOver(profits, debts, 2)
     IN  /\ riskResult.status = "returned"
         /\ Len(RiskLines) >= at + 2
         /\ RiskLines[at].fixed = "Debt-to-Income Ratio"
         /\ IF inf THEN RiskLines[at].value = Infinity
            ELSE /\ RiskLines[at].value[2] # 0
                 /\ SameFraction(RiskLines[at].value,
                                 Sum(debts) * Len(profits), Len(debts) * Sum(profits))
         /\ Cardinality({k \in 1..Len(RiskLines) : RiskLines[k].fixed \in ServicingTexts}) = 1
         /\ RiskLines[at + 1].fixed \in ServicingTexts
         /\ RiskLines[at + 1].fixed
              = "High debt servicing risk: Profits may not cover obligations." <=> over4
         /\ RiskLines[at + 1].fixed = "Moderate debt servicing risk." <=> (over2 /\ ~over4)
         /\ RiskLines[at + 1].fixed = "Debt levels manageable relative to income." <=> ~over2

\* a zero mean profit: the sentinel, classified High
C10_Witness ==
  /\ RiskCalled
  /\ riskResult.locals.profits # <<>>
  /\ riskResult.locals.debts # <<>>
  /\ Sum(riskResult.locals.profits) = 0
  /\ \E k \in 1..(Len(RiskLines) - 1) :
       /\ RiskLines[k].fixed = "Debt-to-Income Ratio"
       /\ RiskLines[k].value = Infinity
       /\ RiskLines[k + 1].fixed = "High debt servicing risk: Profits may not cover obligations."


---------------------------------------------------------------------------
(* C11 *)

\* the file name of the request ends in .pdf, in any case of the letters
C11_PdfName ==
  /\ ~filename.none
  /\ Len(filename.chars) >= 4
  /\ LET n == filename.chars
         l == Len(filename.chars)
     IN  /\ n[l - 3] = "."
         /\ n[l - 2] \in {"p", "P"}
         /\ n[l - 1] \in {"d", "D"}
         /\ n[l] \in {"f", "F"}

\* C11: once the handler has finished a request whose file name ends in .pdf,
\* the saved file no longer exists unless its removal failed, whichever way
\* the handler ended; a request whose file name does not end in .pdf is
\* answered with 400 and no file is ever created for it.
C11_CleanedUp ==
  /\ (C11_PdfName /\ pc = "done" /\ ~removeFailed) => ~exists
  /\ ~C11_PdfName =>
       /\ ~created
       /\ ~exists
       /\ pc \in {"validate", "done"}
       /\ pc = "done" => response = 400

\* the handler finished with an error after the file was created, and the
\* file is gone
C11_Witness ==
  /\ pc = "done"
  /\ C11_PdfName
  /\ created
  /\ ~exists
  /\ response \in {413, 422, 500}

---------------------------------------------------------------------------
(* C12 *)

\* the request got as far as the upload loop
C12_InLoop == created

====
